---- MODULE Spec2Model ----
(***************************************************************************)
(* A model of generate_ascii.py: image -> grayscale grid -> ASCII rows ->  *)
(* plain text or SVG <tspan> elements.                                      *)
(*                                                                         *)
(* Strings are sequences of one-character strings.  The floating-point     *)
(* expression of the quantizer is computed bit by bit as IEEE-754 binary64 *)
(* arithmetic does it (round to nearest, ties to even).                    *)
(***************************************************************************)
EXTENDS Integers, Sequences, FiniteSets, TLC

VARIABLES
    pc,            \* position of the run
    loadable,      \* whether Image.open/convert succeed on image_path
    width, height, \* args.width, args.height
    pixels,        \* img.getdata() after resize: flat, row-major, 0..255
    chars,         \* args.chars, the palette
    format,        \* args.format
    x, y_start, line_height,
    ascii_lines,   \* list of rows
    line,          \* the row being built or escaped
    escaped_line,
    svg_lines,
    svg_output,
    pixel_value,   \* one luminance sample
    char_index,
    stdout, stderr, exit_code

vars == <<pc, loadable, width, height, pixels, chars, format, x, y_start,
          line_height, ascii_lines, line, escaped_line, svg_lines,
          svg_output, pixel_value, char_index, stdout, stderr, exit_code>>

(***************************************************************************)
(* Bounds of the model.                                                    *)
(***************************************************************************)
MaxPaletteLen == 52
MaxWidth == 2
MaxHeight == 2
MaxLineLen == 4
MaxRowLen == 1
MaxRows == 3

(***************************************************************************)
(* Program constants.                                                      *)
(***************************************************************************)
MaxLuminance == 255
MantissaBits == 53
SuccessExitCode == 0

ErrorExitCodeAsSuccess == SuccessExitCode

ErrorExitCode == 1

None == "None"

(***************************************************************************)
(* IEEE-754 binary64 arithmetic on bit sequences (most significant bit     *)
(* first).  A float is [neg, m, e]: value = (-1)^neg * m * 2^e, where m is *)
(* a sequence of MantissaBits bits starting with 1, or <<>> for zero.      *)
(* Integers here stay below 2^30.                                          *)
(***************************************************************************)
\* The number of bits of n >= 0 (0 for 0).
BitLen(n) == CHOOSE k \in 0..30 : n < 2^k /\ (k = 0 \/ 2^(k - 1) <= n)

\* The w low bits of n.
ToBits(n, w) == [j \in 1..w |-> (n \div 2^(w - j)) % 2]

IntBits(n) == ToBits(n, BitLen(n))

RECURSIVE BitsToInt(_)
BitsToInt(b) ==
    IF b = <<>> THEN 0
    ELSE 2 * BitsToInt(SubSeq(b, 1, Len(b) - 1)) + b[Len(b)]

\* b + 1 on a bit sequence; an all-ones sequence grows by one bit.
Increment(b) ==
    IF \A j \in 1..Len(b) : b[j] = 1
    THEN <<1>> \o [j \in 1..Len(b) |-> 0]
    ELSE LET z == CHOOSE j \in 1..Len(b) :
                      b[j] = 0 /\ \A q \in (j + 1)..Len(b) : b[q] = 1
         IN  [j \in 1..Len(b) |-> IF j < z THEN b[j] ELSE IF j = z THEN 1 ELSE 0]

\* Round up a MantissaBits-wide mantissa: on carry-out the mantissa becomes
\* 10...0 and the exponent grows by one.
RoundUp(m, e) ==
    LET s == Increment(m)
    IN  IF Len(s) > MantissaBits
        THEN [m |-> SubSeq(s, 1, MantissaBits), e |-> e + 1]
        ELSE [m |-> s, e |-> e]

RECURSIVE Pow2Mod(_, _)
\* 2^k mod b
Pow2Mod(k, b) ==
    IF k <= 15 THEN (2^k) % b
    ELSE (((2^15) % b) * Pow2Mod(k - 15, b)) % b

\* The remainder of the long division r/b after k fraction bits (r < b).
DivRem(r, b, k) == (r * Pow2Mod(k, b)) % b

\* The k-th fraction bit (weight 2^-k, k >= 1) of r/b (r < b).
FracBit(r, b, k) == (2 * DivRem(r, b, k - 1)) \div b

\* a / b for integers a >= 0, b > 0 (Python's true division of ints is
\* correctly rounded): the first MantissaBits significant bits of the
\* quotient, rounded to nearest, ties to even, on the remainder.
FloatDiv(a, b) ==
    IF a = 0 THEN [neg |-> FALSE, m |-> <<>>, e |-> 0]
    ELSE LET q == a \div b
             r == a % b
             \* position k holds weight 2^-k: k <= 0 in q, k >= 1 in the fraction
             QuotBit(k) == IF k >= 1 THEN FracBit(r, b, k) ELSE (q \div 2^(-k)) % 2
             first == IF q > 0 THEN 1 - BitLen(q)
                      ELSE CHOOSE k \in 1..30 :
                               /\ FracBit(r, b, k) = 1
                               /\ \A j \in 1..(k - 1) : FracBit(r, b, j) = 0
             last == first + MantissaBits - 1
             m == [j \in 1..MantissaBits |-> QuotBit(first + j - 1)]
             rem == DivRem(r, b, last)
             f == IF 2 * rem > b \/ (2 * rem = b /\ m[MantissaBits] = 1)
                  THEN RoundUp(m, -last)
                  ELSE [m |-> m, e |-> -last]
         IN  [neg |-> FALSE, m |-> f.m, e |-> f.e]

\* The exact product of the mantissa m by the integer k (0 < k < 2^12), in
\* three limbs of at most 18 bits.
MulExact(m, k) ==
    LET t3 == BitsToInt(SubSeq(m, 36, 53)) * k
        t2 == (BitsToInt(SubSeq(m, 18, 35)) * k) + (t3 \div 2^18)
        t1 == (BitsToInt(SubSeq(m, 1, 17)) * k) + (t2 \div 2^18)
    IN  IntBits(t1) \o ToBits(t2 % 2^18, 18) \o ToBits(t3 % 2^18, 18)

\* Round an exact product of L >= MantissaBits bits to MantissaBits bits.
RoundBits(p, e) ==
    LET L == Len(p)
        keep == SubSeq(p, 1, MantissaBits)
        guard == p[MantissaBits + 1]
        sticky == \E q \in (MantissaBits + 2)..L : p[q] = 1
    IN  IF L = MantissaBits THEN [m |-> p, e |-> e]
        ELSE IF guard = 1 /\ (sticky \/ keep[MantissaBits] = 1)
        THEN RoundUp(keep, e + (L - MantissaBits))
        ELSE [m |-> keep, e |-> e + (L - MantissaBits)]

\* f * k for a float f and an integer k (converted to float exactly).
FloatMulInt(f, k) ==
    LET a == IF k < 0 THEN -k ELSE k
        neg == (f.neg /\ k >= 0) \/ (~f.neg /\ k < 0)
    IN  IF f.m = <<>> \/ a = 0 THEN [neg |-> neg, m |-> <<>>, e |-> 0]
        ELSE LET r == RoundBits(MulExact(f.m, a), f.e)
             IN  [neg |-> neg, m |-> r.m, e |-> r.e]

\* int(f): truncation toward zero.
FloatToInt(f) ==
    LET nint == MantissaBits + f.e
        mag == IF f.m = <<>> \/ nint <= 0 THEN 0
               ELSE IF f.e >= 0 THEN BitsToInt(f.m) * 2^(f.e)
               ELSE BitsToInt(SubSeq(f.m, 1, nint))
    IN  IF f.neg THEN -mag ELSE mag

\* pixel_value / 255, for every sample, computed once.
FractionTable == [v \in 0..MaxLuminance |-> FloatDiv(v, MaxLuminance)]

CharIndexFullLength(v, n) == FloatToInt(FloatMulInt(FractionTable[v], n))

\* int((pixel_value / 255) * (len(chars) - 1))
CharIndex(v, n) == FloatToInt(FloatMulInt(FractionTable[v], n - 1))

\* The index of every (palette length, sample) pair, computed once.
QuantTable ==
    [n \in 0..MaxPaletteLen |->
        [v \in 0..MaxLuminance |-> CharIndex(v, n)]]

QuantIndex(v, n) == QuantTable[n][v]

(***************************************************************************)
(* Python strings and lists.                                               *)
(***************************************************************************)
NL == "\n"

\* chars[k] is defined for -len <= k < len; otherwise IndexError.
InRange(k, n) == -n <= k /\ k < n

Subscript(s, k) == IF k >= 0 THEN s[k + 1] ELSE s[Len(s) + k + 1]

RECURSIVE Replace(_, _, _)
\* s.replace(old, new) for a non-empty old: leftmost, non-overlapping.
Replace(s, old, new) ==
    IF Len(s) < Len(old) THEN s
    ELSE IF SubSeq(s, 1, Len(old)) = old
    THEN new \o Replace(SubSeq(s, Len(old) + 1, Len(s)), old, new)
    ELSE <<s[1]>> \o Replace(Tail(s), old, new)

RECURSIVE Join(_, _)
\* sep.join(list)
Join(sep, list) ==
    IF list = <<>> THEN <<>>
    ELSE IF Len(list) = 1 THEN list[1]
    ELSE list[1] \o sep \o Join(sep, Tail(list))

DigitChars == <<"0", "1", "2", "3", "4", "5", "6", "7", "8", "9">>

RECURSIVE Digits(_)
Digits(n) ==
    IF n < 10 THEN <<DigitChars[n + 1]>>
    ELSE Append(Digits(n \div 10), DigitChars[(n % 10) + 1])

\* str(n) of an int, as the f-string formats it.
IntToStr(n) == IF n < 0 THEN <<"-">> \o Digits(-n) ELSE Digits(n)

\* print(s): the text and a newline.
PrintLineNoNewline(s) == s

PrintLine(s) == s \o <<NL>>

(***************************************************************************)
(* format_for_svg                                                          *)
(***************************************************************************)
Amp == <<"&", "a", "m", "p", ";">>
Lt == <<"&", "l", "t", ";">>
Gt == <<"&", "g", "t", ";">>

EscapeLineAmpLast(l) ==
    Replace(Replace(Replace(l, <<"<">>, Lt), <<">">>, Gt), <<"&">>, Amp)

EscapeLineNoGt(l) == Replace(Replace(l, <<"&">>, Amp), <<"<">>, Lt)

\* line.replace('&', '&amp;').replace('<', '&lt;').replace('>', '&gt;')
EscapeLine(l) ==
    Replace(Replace(Replace(l, <<"&">>, Amp), <<"<">>, Lt), <<">">>, Gt)

TspanOpen == <<"<", "t", "s", "p", "a", "n", " ", "x", "=", "\"">>
TspanY == <<"\"", " ", "y", "=", "\"">>
TspanClose == <<"<", "/", "t", "s", "p", "a", "n", ">">>

SvgLineOneBased(k, l, xv, ys, lh) ==
    TspanOpen \o IntToStr(xv) \o TspanY \o IntToStr(ys + ((k + 1) * lh))
        \o <<"\"", ">">> \o EscapeLine(l) \o TspanClose

\* The loop body for the k-th row (k from 0).
SvgLine(k, l, xv, ys, lh) ==
    TspanOpen \o IntToStr(xv) \o TspanY \o IntToStr(ys + (k * lh))
        \o <<"\"", ">">> \o EscapeLine(l) \o TspanClose

SvgLines(lines, xv, ys, lh) ==
    [k \in 1..Len(lines) |-> SvgLine(k - 1, lines[k], xv, ys, lh)]

FormatForSvg(lines, xv, ys, lh) == Join(<<NL>>, SvgLines(lines, xv, ys, lh))

(***************************************************************************)
(* image_to_ascii                                                          *)
(***************************************************************************)
\* Image.open / convert fail on an unreadable file; resize rejects a size
\* below 1x1.
LoadFails(ok, w, h) == ~ok \/ w < 1 \/ h < 1

PixelAtColumnMajor(pix, r, c, w) == pix[(c * (Len(pix) \div w)) + r + 1]

\* pixels[i * width + j]
PixelAt(pix, r, c, w) == pix[(r * w) + c + 1]

\* Some chars[char_index] of the loop raises IndexError.
LookupRaises(pix, w, h, cs) ==
    \E r \in 0..(h - 1), c \in 0..(w - 1) :
        ~InRange(QuantIndex(PixelAt(pix, r, c, w), Len(cs)), Len(cs))

AsciiLinesTransposed(pix, w, h, cs) ==
    [r \in 1..w |->
        [c \in 1..h |->
            Subscript(cs, QuantIndex(PixelAt(pix, c - 1, r - 1, w), Len(cs)))]]

\* The two loops: one row per i in range(height), one glyph per j in
\* range(width).
AsciiLines(pix, w, h, cs) ==
    [r \in 1..h |->
        [c \in 1..w |->
            Subscript(cs, QuantIndex(PixelAt(pix, r - 1, c - 1, w), Len(cs)))]]

ReportErrorToStdout(out, err, cause) ==
    [stdout |-> out \o PrintLine(<<"Error processing image: ", cause>>),
     stderr |-> err]

\* print(f"Error processing image: {e}", file=sys.stderr)
ReportError(out, err, cause) ==
    [stdout |-> out,
     stderr |-> err \o PrintLine(<<"Error processing image: ", cause>>)]

RECURSIVE PrintLines(_)
\* for line in ascii_lines: print(line)
PrintLines(lines) ==
    IF lines = <<>> THEN <<>>
    ELSE PrintLine(lines[1]) \o PrintLines(Tail(lines))

(***************************************************************************)
(* The inputs.                                                             *)
(***************************************************************************)
\* parser.add_argument('--chars', default='@%#*+=-:. ')
DefaultChars == <<"@", "%", "#", "*", "+", "=", "-", ":", ".", " ">>

\* The characters palettes are drawn from: the default palette, then
\* letters and digits, all distinct.
PaletteAlphabet ==
    DefaultChars \o
    <<
        "a", "b", "c", "d", "e", "f", "g", "h", "i", "j", "k", "l", "m",
        "n", "o", "p", "q", "r", "s", "t", "u", "v", "w", "x", "y", "z",
        "A", "B", "C", "D", "E", "F", "G", "H", "I", "J", "K", "L", "M",
        "N", "O", "P", "Q", "R", "S", "T", "U", "V", "W", "X", "Y", "Z",
        "0", "1"
    >>

\* Palettes of the quantizer's specification: one of each length.
PaletteOfLen(n) == SubSeq(PaletteAlphabet, 1, n)

\* Palettes of a run: empty, one glyph, two glyphs, the default, markup.
Palettes ==
    {<<>>, <<"x">>, <<"@", " ">>, DefaultChars, <<"&", "<", ">">>}

\* Samples of a run's grid: black, mid-gray, white.
Samples == {0, 128, MaxLuminance}

DefaultX == 15
DefaultYStart == 30
DefaultLineHeight == 20

XValues == {DefaultX, 0, -3}
YStartValues == {DefaultYStart, -5}
LineHeightValues == {DefaultLineHeight, 0, -7}

\* Rows handed to the escaping step.
EscapeAlphabet == {"&", "<", ">", "l", "t", ";"}

\* Rows handed to format_for_svg on its own.
RowAlphabet == {"a", "<"}

SeqsUpTo(S, n) == UNION {[1..k -> S] : k \in 0..n}

(***************************************************************************)
(* main: one run of the program.                                           *)
(***************************************************************************)
Init ==
    /\ pc = "start"
    /\ loadable \in BOOLEAN
    /\ width \in 0..MaxWidth
    /\ height \in 0..MaxHeight
    /\ pixels \in IF LoadFails(loadable, width, height)
                  THEN {<<>>}
                  ELSE [1..(width * height) -> Samples]
    /\ chars \in Palettes
    /\ format \in {"text", "svg"}
    /\ x = DefaultX
    /\ y_start \in {DefaultYStart, 10}
    /\ line_height = DefaultLineHeight
    /\ ascii_lines = None
    /\ line = None
    /\ escaped_line = None
    /\ svg_lines = None
    /\ svg_output = None
    /\ pixel_value = None
    /\ char_index = None
    /\ stdout = <<>>
    /\ stderr = <<>>
    /\ exit_code = None

\* ascii_lines = image_to_ascii(...), with its try/except: any exception is
\* reported and the process exits with status 1.
ImageToAscii ==
    /\ pc = "start"
    /\ IF LoadFails(loadable, width, height)
       THEN LET r == ReportError(stdout, stderr, "load error")
            IN  /\ stdout' = r.stdout
                /\ stderr' = r.stderr
                /\ exit_code' = ErrorExitCode
                /\ pc' = "exited"
                /\ UNCHANGED ascii_lines
       ELSE IF LookupRaises(pixels, width, height, chars)
       THEN LET r == ReportError(stdout, stderr, "string index out of range")
            IN  /\ stdout' = r.stdout
                /\ stderr' = r.stderr
                /\ exit_code' = ErrorExitCode
                /\ pc' = "exited"
                /\ UNCHANGED ascii_lines
       ELSE /\ ascii_lines' = AsciiLines(pixels, width, height, chars)
            /\ pc' = "render"
            /\ UNCHANGED <<stdout, stderr, exit_code>>
    /\ UNCHANGED <<loadable, width, height, pixels, chars, format, x, y_start,
                   line_height, line, escaped_line, svg_lines, svg_output,
                   pixel_value, char_index>>

\* args.format == 'svg': print(format_for_svg(...)); main returns.
RenderSvg ==
    /\ pc = "render"
    /\ format = "svg"
    /\ svg_output' = FormatForSvg(ascii_lines, x, y_start, line_height)
    /\ stdout' = stdout \o PrintLine(svg_output')
    /\ exit_code' = SuccessExitCode
    /\ pc' = "exited"
    /\ UNCHANGED <<loadable, width, height, pixels, chars, format, x, y_start,
                   line_height, ascii_lines, line, escaped_line, svg_lines,
                   pixel_value, char_index, stderr>>

\* else: for line in ascii_lines: print(line); main returns.
RenderText ==
    /\ pc = "render"
    /\ format # "svg"
    /\ stdout' = stdout \o PrintLines(ascii_lines)
    /\ exit_code' = SuccessExitCode
    /\ pc' = "exited"
    /\ UNCHANGED <<loadable, width, height, pixels, chars, format, x, y_start,
                   line_height, ascii_lines, line, escaped_line, svg_lines,
                   svg_output, pixel_value, char_index, stderr>>

Next == ImageToAscii \/ RenderSvg \/ RenderText

Spec == Init /\ [][Next]_vars

(***************************************************************************)
(* The quantization step on its own: one sample, one palette.              *)
(***************************************************************************)
InitQuant ==
    /\ pc = "quantize"
    /\ chars \in {PaletteOfLen(n) : n \in 0..MaxPaletteLen}
    /\ pixel_value \in 0..MaxLuminance
    /\ char_index = None
    /\ line = <<>>
    /\ loadable = TRUE
    /\ width = 1
    /\ height = 1
    /\ pixels = <<pixel_value>>
    /\ format = "text"
    /\ x = DefaultX
    /\ y_start = DefaultYStart
    /\ line_height = DefaultLineHeight
    /\ ascii_lines = None
    /\ escaped_line = None
    /\ svg_lines = None
    /\ svg_output = None
    /\ stdout = <<>>
    /\ stderr = <<>>
    /\ exit_code = None

\* char_index = int(...); line += chars[char_index]
Quantize ==
    /\ pc = "quantize"
    /\ char_index' = QuantIndex(pixel_value, Len(chars))
    /\ IF InRange(char_index', Len(chars))
       THEN /\ line' = Append(line, Subscript(chars, char_index'))
            /\ pc' = "quantized"
       ELSE /\ line' = line
            /\ pc' = "raised"
    /\ UNCHANGED <<loadable, width, height, pixels, chars, format, x, y_start,
                   line_height, ascii_lines, escaped_line, svg_lines,
                   svg_output, pixel_value, stdout, stderr, exit_code>>

NextQuant == Quantize

SpecQuant == InitQuant /\ [][NextQuant]_vars

(***************************************************************************)
(* The escaping step on its own: one row.                                  *)
(***************************************************************************)
InitEscape ==
    /\ pc = "escape"
    /\ line \in SeqsUpTo(EscapeAlphabet, MaxLineLen)
    /\ escaped_line = None
    /\ loadable = TRUE
    /\ width = 0
    /\ height = 0
    /\ pixels = <<>>
    /\ chars = DefaultChars
    /\ format = "svg"
    /\ x = DefaultX
    /\ y_start = DefaultYStart
    /\ line_height = DefaultLineHeight
    /\ ascii_lines = None
    /\ svg_lines = None
    /\ svg_output = None
    /\ pixel_value = None
    /\ char_index = None
    /\ stdout = <<>>
    /\ stderr = <<>>
    /\ exit_code = None

Escape ==
    /\ pc = "escape"
    /\ escaped_line' = EscapeLine(line)
    /\ pc' = "escaped"
    /\ UNCHANGED <<loadable, width, height, pixels, chars, format, x, y_start,
                   line_height, ascii_lines, line, svg_lines, svg_output,
                   pixel_value, char_index, stdout, stderr, exit_code>>

NextEscape == Escape

SpecEscape == InitEscape /\ [][NextEscape]_vars

(***************************************************************************)
(* format_for_svg on its own: any list of rows, any position.              *)
(***************************************************************************)
InitSvg ==
    /\ pc = "format"
    /\ ascii_lines \in SeqsUpTo(SeqsUpTo(RowAlphabet, MaxRowLen), MaxRows)
    /\ x \in XValues
    /\ y_start \in YStartValues
    /\ line_height \in LineHeightValues
    /\ svg_lines = <<>>
    /\ svg_output = None
    /\ loadable = TRUE
    /\ width = 0
    /\ height = 0
    /\ pixels = <<>>
    /\ chars = DefaultChars
    /\ format = "svg"
    /\ line = None
    /\ escaped_line = None
    /\ pixel_value = None
    /\ char_index = None
    /\ stdout = <<>>
    /\ stderr = <<>>
    /\ exit_code = None

FormatSvg ==
    /\ pc = "format"
    /\ svg_lines' = SvgLines(ascii_lines, x, y_start, line_height)
    /\ svg_output' = Join(<<NL>>, svg_lines')
    /\ pc' = "formatted"
    /\ UNCHANGED <<loadable, width, height, pixels, chars, format, x, y_start,
                   line_height, ascii_lines, line, escaped_line, pixel_value,
                   char_index, stdout, stderr, exit_code>>

NextSvg == FormatSvg

SpecSvg == InitSvg /\ [][NextSvg]_vars

(***************************************************************************)
(* Reading text back: used to state the properties below.                  *)
(***************************************************************************)
Range(s) == {s[k] : k \in 1..Len(s)}

HasAt(s, k, p) == k + Len(p) - 1 <= Len(s) /\ SubSeq(s, k, k + Len(p) - 1) = p

StartsWith(s, p) == HasAt(s, 1, p)

EndsWith(s, p) == Len(p) <= Len(s) /\ HasAt(s, Len(s) - Len(p) + 1, p)

\* The text before the first c of s (all of s when it holds no c).
TakeUntil(s, c) ==
    LET at == {k \in 1..Len(s) : s[k] = c}
    IN  IF at = {} THEN s
        ELSE SubSeq(s, 1, (CHOOSE k \in at : \A q \in at : k <= q) - 1)

\* s.split(c): the pieces between the occurrences of c.
SplitOn(s, c) ==
    LET at == {k \in 1..Len(s) : s[k] = c}
        Nth(j) == IF j = 0 THEN 0
                  ELSE IF j > Cardinality(at) THEN Len(s) + 1
                  ELSE CHOOSE k \in at : Cardinality({q \in at : q <= k}) = j
    IN  [j \in 1..(Cardinality(at) + 1) |-> SubSeq(s, Nth(j - 1) + 1, Nth(j) - 1)]

IsDigit(c) == \E d \in 1..10 : DigitChars[d] = c

DigitValue(c) == (CHOOSE d \in 1..10 : DigitChars[d] = c) - 1

IsNumber(s) ==
    LET ds == IF s # <<>> /\ s[1] = "-" THEN Tail(s) ELSE s
    IN  ds # <<>> /\ \A k \in 1..Len(ds) : IsDigit(ds[k])

RECURSIVE ParseNat(_)
ParseNat(ds) ==
    IF ds = <<>> THEN 0
    ELSE 10 * ParseNat(SubSeq(ds, 1, Len(ds) - 1)) + DigitValue(ds[Len(ds)])

ParseInt(s) == IF s[1] = "-" THEN -ParseNat(Tail(s)) ELSE ParseNat(s)

\* The parts of one <tspan x="X" y="Y">TEXT</tspan>.
ParseTspan(el) ==
    LET a == SubSeq(el, Len(TspanOpen) + 1, Len(el))
        xs == TakeUntil(a, "\"")
        b == SubSeq(a, Len(xs) + 1, Len(a))
        c == SubSeq(b, Len(TspanY) + 1, Len(b))
        ys == TakeUntil(c, "\"")
        d == SubSeq(c, Len(ys) + 1, Len(c))
    IN  [ok |-> /\ StartsWith(el, TspanOpen)
                /\ IsNumber(xs)
                /\ StartsWith(b, TspanY)
                /\ IsNumber(ys)
                /\ StartsWith(d, <<"\"", ">">>)
                /\ Len(d) >= 2 + Len(TspanClose)
                /\ EndsWith(d, TspanClose),
         x |-> xs,
         y |-> ys,
         text |-> SubSeq(d, 3, Len(d) - Len(TspanClose))]

\* Decoding the three entities, &amp; last.
Unescape(s) ==
    Replace(Replace(Replace(s, <<"&", "l", "t", ";">>, <<"<">>),
                    <<"&", "g", "t", ";">>, <<">">>),
            <<"&", "a", "m", "p", ";">>, <<"&">>)

EntityOf(c) ==
    IF c = "&" THEN <<"&", "a", "m", "p", ";">>
    ELSE IF c = "<" THEN <<"&", "l", "t", ";">>
    ELSE IF c = ">" THEN <<"&", "g", "t", ";">>
    ELSE <<c>>

RECURSIVE PerCharacter(_)
PerCharacter(s) ==
    IF s = <<>> THEN <<>> ELSE EntityOf(s[1]) \o PerCharacter(Tail(s))

(***************************************************************************)
(* The properties.                                                         *)
(***************************************************************************)

\* C1: for a palette of length n >= 2 the quantization step selects P[0] for
\* the sample 0 and P[n-1] for the sample 255, and the selected index never
\* decreases when the sample grows.
C1_EndpointsAndMonotonic ==
    (pc # "quantize" /\ Len(chars) >= 2) =>
        /\ pc = "quantized"
        /\ pixel_value = 0 => (char_index = 0 /\ line = <<chars[1]>>)
        /\ pixel_value = 255 =>
               (char_index = Len(chars) - 1 /\ line = <<chars[Len(chars)]>>)
        /\ \A v2 \in pixel_value..255 :
               char_index <= QuantIndex(v2, Len(chars))

C1_Witness ==
    /\ pc = "quantized"
    /\ chars = DefaultChars
    /\ pixel_value = 255
    /\ char_index = 9
    /\ line = <<" ">>

\* C2: for a palette of length n >= 1 the index is floor(v * (n - 1) / 255),
\* lies in 0..n-1, and the lookup never fails.
C2_IndexIsExactFloor ==
    (pc # "quantize" /\ Len(chars) >= 1) =>
        /\ pc = "quantized"
        /\ char_index = (pixel_value * (Len(chars) - 1)) \div 255
        /\ char_index \in 0..(Len(chars) - 1)
        /\ Len(line) = 1

\* C3: for a loaded image with width > 0, height > 0 and a non-empty palette,
\* image_to_ascii returns exactly height rows of exactly width characters,
\* each a character of the palette.
C3_GridShape ==
    (pc # "start" /\ loadable /\ width > 0 /\ height > 0 /\ chars # <<>>) =>
        /\ pc = "render" \/ exit_code = 0
        /\ Len(ascii_lines) = height
        /\ \A r \in 1..Len(ascii_lines) :
               /\ Len(ascii_lines[r]) = width
               /\ \A c \in 1..Len(ascii_lines[r]) :
                      ascii_lines[r][c] \in Range(chars)

C3_Witness ==
    /\ pc = "render"
    /\ width = 2
    /\ height = 1
    /\ chars = DefaultChars
    /\ ascii_lines = <<<<"@", " ">>>>

\* C4: format_for_svg returns the newline-join of one <tspan> per row, in the
\* order of the rows; element i (from 0) has x = x and y = y_start +
\* i * line_height; no rows give the empty string.
C4_OneTspanPerRow ==
    pc = "formatted" =>
        IF ascii_lines = <<>> THEN svg_output = <<>>
        ELSE LET els == SplitOn(svg_output, NL)
             IN  /\ Len(els) = Len(ascii_lines)
                 /\ \A k \in 1..Len(els) :
                        LET t == ParseTspan(els[k])
                        IN  /\ t.ok
                            /\ ParseInt(t.x) = x
                            /\ ParseInt(t.y) = y_start + ((k - 1) * line_height)
                            /\ Unescape(t.text) = ascii_lines[k]

C4_Witness ==
    /\ pc = "formatted"
    /\ ascii_lines = <<<<"a">>, <<>>, <<"<">>>>
    /\ x = -3
    /\ y_start = 30
    /\ line_height = -7
    /\ Len(SplitOn(svg_output, NL)) = 3
    /\ ParseTspan(SplitOn(svg_output, NL)[3]).y = <<"1", "6">>

\* C5: escaping a row maps each '&' to '&amp;', each '<' to '&lt;' and each
\* '>' to '&gt;' exactly once: the result is the per-character mapping of the
\* row, and '&<>' escapes to '&amp;&lt;&gt;'.
C5_EscapeIsPerCharacter ==
    pc = "escaped" =>
        /\ escaped_line = PerCharacter(line)
        /\ line = <<"&", "<", ">">> =>
               escaped_line = <<"&", "a", "m", "p", ";", "&", "l", "t", ";",
                                "&", "g", "t", ";">>

C5_Witness ==
    /\ pc = "escaped"
    /\ line = <<"&", "<", ">">>
    /\ escaped_line = <<"&", "a", "m", "p", ";", "&", "l", "t", ";",
                        "&", "g", "t", ";">>

\* C6 as stated: a run exits with status 1, a diagnostic on stderr and
\* nothing on stdout when the image cannot be loaded, and with status 0 and
\* output on stdout otherwise.
C6_ExitOneOnlyOnLoadError ==
    pc = "exited" =>
        IF ~loadable \/ width < 1 \/ height < 1
        THEN exit_code = 1 /\ stderr # <<>> /\ stdout = <<>>
        ELSE exit_code = 0 /\ stdout # <<>>

\* C6 amended: a run exits with status 1, a diagnostic on stderr and nothing
\* on stdout when the image cannot be loaded or resized or the palette is
\* empty, and with status 0, the rendering on stdout and nothing on stderr
\* otherwise.
C6_ExitStatus ==
    pc = "exited" =>
        IF ~loadable \/ width < 1 \/ height < 1 \/ chars = <<>>
        THEN exit_code = 1 /\ stderr # <<>> /\ stdout = <<>>
        ELSE /\ exit_code = 0
             /\ stderr = <<>>
             /\ stdout # <<>>
             /\ stdout[Len(stdout)] = NL

C6_Witness ==
    /\ pc = "exited"
    /\ ~loadable
    /\ exit_code = 1
    /\ stderr # <<>>
    /\ stdout = <<>>

\* C7 as stated: the text output is the rows joined by newline.
C7_TextIsJoinedRows ==
    (pc = "exited" /\ exit_code = 0 /\ format = "text") =>
        stdout = Join(<<NL>>, ascii_lines)

\* C7 amended: the text output is every row, unchanged and in order, each
\* followed by a newline; a black 2x2 image with chars "@ " gives
\* "@@\n@@\n" and a white one two rows of two spaces, each with its newline.
C7_TextIsRowsWithNewlines ==
    (pc = "exited" /\ exit_code = 0 /\ format = "text") =>
        /\ stdout = Join(<<NL>>, ascii_lines) \o <<NL>>
        /\ (width = 2 /\ height = 2 /\ chars = <<"@", " ">>
               /\ pixels = <<0, 0, 0, 0>>) =>
               stdout = <<"@", "@", NL, "@", "@", NL>>
        /\ (width = 2 /\ height = 2 /\ chars = <<"@", " ">>
               /\ pixels = <<255, 255, 255, 255>>) =>
               stdout = <<" ", " ", NL, " ", " ", NL>>

C7_Witness ==
    /\ pc = "exited"
    /\ format = "text"
    /\ width = 2
    /\ height = 2
    /\ chars = <<"@", " ">>
    /\ pixels = <<0, 0, 0, 0>>
    /\ stdout = <<"@", "@", NL, "@", "@", NL>>

\* C8: with an empty palette and a loaded image of width > 0 and height > 0
\* the run fails like a load error: a diagnostic on stderr, status 1, nothing
\* on stdout.
C8_EmptyPaletteFailsFast ==
    (pc # "start" /\ loadable /\ width > 0 /\ height > 0 /\ chars = <<>>) =>
        /\ pc = "exited"
        /\ exit_code = 1
        /\ stderr # <<>>
        /\ stdout = <<>>

C8_Witness ==
    /\ pc = "exited"
    /\ loadable
    /\ width = 2
    /\ height = 2
    /\ chars = <<>>
    /\ pixels[1] = 255
    /\ exit_code = 1
    /\ stderr # <<>>

\* C9: the character at column j of row i is the palette character selected
\* for the sample at flat position i * width + j.
C9_RowMajor ==
    (pc = "render" \/ (pc = "exited" /\ exit_code = 0)) =>
        \A i0 \in 0..(height - 1), j0 \in 0..(width - 1) :
            ascii_lines[i0 + 1][j0 + 1] =
                Subscript(chars,
                          QuantIndex(pixels[(i0 * width) + j0 + 1], Len(chars)))

C9_Witness ==
    /\ pc = "render"
    /\ width = 2
    /\ height = 2
    /\ pixels = <<0, 255, 128, 0>>
    /\ chars = <<"@", " ">>
    /\ ascii_lines = <<<<"@", " ">>, <<"@", "@">>>>

\* C10: the escaped row holds no raw '<' or '>', every '&' in it begins one
\* of '&amp;', '&lt;', '&gt;', and decoding the three entities ('&amp;' last)
\* gives the row back.
C10_EscapeRoundTrip ==
    pc = "escaped" =>
        /\ \A k \in 1..Len(escaped_line) : escaped_line[k] \notin {"<", ">"}
        /\ \A k \in 1..Len(escaped_line) :
               escaped_line[k] = "&" =>
                   \/ HasAt(escaped_line, k, <<"&", "a", "m", "p", ";">>)
                   \/ HasAt(escaped_line, k, <<"&", "l", "t", ";">>)
                   \/ HasAt(escaped_line, k, <<"&", "g", "t", ";">>)
        /\ Unescape(escaped_line) = line

C10_Witness ==
    /\ pc = "escaped"
    /\ line = <<"&", "l", "t", ";">>
    /\ escaped_line = <<"&", "a", "m", "p", ";", "l", "t", ";">>

====
